---------------------------- MODULE Spec2Model ----------------------------
(***************************************************************************)
(* A model of typeid-postgres: the Crockford base-32 codec                 *)
(* (src/src/base32.rs), the TypeID value type (src/src/typeid.rs), the     *)
(* SQL-visible helpers (src/src/lib.rs) and the min/max aggregates         *)
(* (src/src/aggregate.rs).                                                 *)
(*                                                                         *)
(* Text is a sequence of bytes (0..255), as Rust's &str is read through    *)
(* as_bytes().  A Uuid is its 16 bytes, most significant first.  A u128 is *)
(* eight 16-bit limbs, least significant first, so that shifts, masks and  *)
(* the loss of the bits shifted out of the top are computed, not assumed.  *)
(***************************************************************************)
EXTENDS Integers, Sequences, FiniteSets, TLC

VARIABLES
    \* codec session: a Uuid, the text handed to decode, the decode result
    cuuid, ctext, corigin, cdec,
    \* prefix session: a tag and the result of TypeIDPrefix::new
    ptag, pres,
    \* text session: a TypeID, its text, the parse result, the re-rendering
    tid, text, origin, parsed, rendered, valid,
    \* ordering session: three TypeIDs and the results of typeid_cmp
    oa, ob, oc, ord,
    \* hashing session: two TypeIDs, the hasher's outputs seen so far, results
    ha, hb, gx, hres,
    \* sequential aggregation: rows left, rows fed, the two transition states
    rows, pending, minState, maxState,
    \* parallel aggregation: rows left per scan, per-worker partial states
    prows, ppending, wMin, wMax, alive

codecVars  == <<cuuid, ctext, corigin, cdec>>
prefixVars == <<ptag, pres>>
textVars   == <<tid, text, origin, parsed, rendered, valid>>
orderVars  == <<oa, ob, oc, ord>>
hashVars   == <<ha, hb, gx, hres>>
aggVars    == <<rows, pending, minState, maxState>>
parVars    == <<prows, ppending, wMin, wMax, alive>>
vars == <<codecVars, prefixVars, textVars, orderVars, hashVars, aggVars, parVars>>

-----------------------------------------------------------------------------
(* Results: Rust's Option and Result as tagged records.                    *)

None == [tag |-> "None"]
Some(x) == [tag |-> "Some", val |-> x]
Ok(x) == [tag |-> "Ok", val |-> x]
Err(kind, reason) == [tag |-> "Err", kind |-> kind, reason |-> reason]
IsOk(r) == r.tag = "Ok"
IsErr(r) == r.tag = "Err"

-----------------------------------------------------------------------------
(* Bytes and text literals.                                                *)

Digits == <<"0", "1", "2", "3", "4", "5", "6", "7", "8", "9">>
LowerCase == <<"a", "b", "c", "d", "e", "f", "g", "h", "i", "j", "k", "l", "m",
               "n", "o", "p", "q", "r", "s", "t", "u", "v", "w", "x", "y", "z">>
UpperCase == <<"A", "B", "C", "D", "E", "F", "G", "H", "I", "J", "K", "L", "M",
               "N", "O", "P", "Q", "R", "S", "T", "U", "V", "W", "X", "Y", "Z">>

\* The ASCII code of a one-character string (b'x' in the source).
ByteOf(ch) ==
    IF \E i \in 1..10 : Digits[i] = ch
    THEN 47 + (CHOOSE i \in 1..10 : Digits[i] = ch)
    ELSE IF \E i \in 1..26 : LowerCase[i] = ch
    THEN 96 + (CHOOSE i \in 1..26 : LowerCase[i] = ch)
    ELSE IF \E i \in 1..26 : UpperCase[i] = ch
    THEN 64 + (CHOOSE i \in 1..26 : UpperCase[i] = ch)
    ELSE IF ch = "_" THEN 95
    ELSE IF ch = "-" THEN 45
    ELSE IF ch = " " THEN 32
    ELSE 63

\* A function on 1..n as a tuple whose elements are computed once.
Eager(f) == f \o <<>>

\* A text from its characters.
Str(chars) == Eager([i \in 1..Len(chars) |-> ByteOf(chars[i])])

\* n copies of one byte.
Rep(b, n) == Eager([i \in 1..n |-> b])

\* s with the byte at position p replaced by b.
Replace(s, p, b) == Eager([s EXCEPT ![p] = b])

Byte == 0..255

-----------------------------------------------------------------------------
(* u128 arithmetic on eight 16-bit limbs, least significant limb first.     *)

U128Zero == <<0, 0, 0, 0, 0, 0, 0, 0>>

RECURSIVE BitOr(_, _)
BitOr(x, y) ==
    IF x = 0 THEN y
    ELSE IF y = 0 THEN x
    ELSE (IF x % 2 = 1 \/ y % 2 = 1 THEN 1 ELSE 0) + 2 * BitOr(x \div 2, y \div 2)

\* data & 0x1f
AndMask5(d) == d[1] % 32

\* data >>= 5
Shr5(d) ==
    <<(d[1] \div 32) + (d[2] % 32) * 2048, (d[2] \div 32) + (d[3] % 32) * 2048,
      (d[3] \div 32) + (d[4] % 32) * 2048, (d[4] \div 32) + (d[5] % 32) * 2048,
      (d[5] \div 32) + (d[6] % 32) * 2048, (d[6] \div 32) + (d[7] % 32) * 2048,
      (d[7] \div 32) + (d[8] % 32) * 2048, d[8] \div 32>>

\* out <<= 5: the five top bits are shifted out and lost
Shl5(d) ==
    <<(d[1] * 32) % 65536,
      ((d[2] * 32) % 65536) + (d[1] \div 2048), ((d[3] * 32) % 65536) + (d[2] \div 2048),
      ((d[4] * 32) % 65536) + (d[3] \div 2048), ((d[5] * 32) % 65536) + (d[4] \div 2048),
      ((d[6] * 32) % 65536) + (d[5] \div 2048), ((d[7] * 32) % 65536) + (d[6] \div 2048),
      ((d[8] * 32) % 65536) + (d[7] \div 2048)>>

\* out |= b as u128
OrByte(d, b) == <<BitOr(d[1], b), d[2], d[3], d[4], d[5], d[6], d[7], d[8]>>

\* Uuid::as_u128: u128::from_be_bytes of the 16 bytes
as_u128(uuid) == Eager([k \in 1..8 |-> uuid[18 - 2 * k] + 256 * uuid[17 - 2 * k]])

\* Uuid::from_u128: the 16 big-endian bytes of the value
from_u128(d) ==
    Eager([i \in 1..16 |->
              IF i % 2 = 0 THEN d[(18 - i) \div 2] % 256 ELSE d[(17 - i) \div 2] \div 256])

-----------------------------------------------------------------------------
(* base32.rs                                                               *)

\* the alphabet of RFC 4648 base32 in lowercase: letters before digits
CROCKFORD_rfc4648 ==
    Str(<<"a", "b", "c", "d", "e", "f", "g", "h", "i", "j", "k", "l", "m", "n", "o", "p",
          "q", "r", "s", "t", "u", "v", "w", "x", "y", "z", "2", "3", "4", "5", "6", "7">>)

\* const CROCKFORD: &[u8; 32] = b"0123456789abcdefghjkmnpqrstvwxyz"
CROCKFORD ==
    Str(<<"0", "1", "2", "3", "4", "5", "6", "7", "8", "9", "a", "b", "c", "d", "e", "f",
          "g", "h", "j", "k", "m", "n", "p", "q", "r", "s", "t", "v", "w", "x", "y", "z">>)

Sentinel == 255
SymbolCount == 32
SuffixLen == 26

\* a table that also accepts the uppercase letters of the alphabet
CROCKFORD_INV_anycase ==
    [b \in Byte |->
        LET low == IF b >= 65 /\ b <= 90 THEN b + 32 ELSE b
        IN  IF \E i \in 0..(SymbolCount - 1) : CROCKFORD[i + 1] = low
            THEN CHOOSE i \in 0..(SymbolCount - 1) : CROCKFORD[i + 1] = low
            ELSE Sentinel] @@ <<>>

\* const CROCKFORD_INV: [255; 256] overwritten at CROCKFORD[i] by i, i < 32
CROCKFORD_INV ==
    [b \in Byte |->
        IF \E i \in 0..(SymbolCount - 1) : CROCKFORD[i + 1] = b
        THEN CHOOSE i \in 0..(SymbolCount - 1) : CROCKFORD[i + 1] = b
        ELSE Sentinel] @@ <<>>

\* The positions (1-based) whose byte the inverse table maps to the sentinel.
InvalidPositions(id) == {i \in 1..Len(id) : CROCKFORD_INV[id[i]] = Sentinel}

\* let mut max = 0u8; for b in id { max |= *b }, from the i-th byte on.  Each
\* round starts from the evaluated accumulator (the test on max).
RECURSIVE OrAll(_, _, _)
OrAll(max, codes, i) ==
    IF i > Len(codes) \/ max < 0 THEN max
    ELSE OrAll(BitOr(max, codes[i]), codes, i + 1)

\* let mut out = 0u128; for b in id { out <<= 5; out |= b as u128; }, from the
\* i-th byte on
RECURSIVE ShiftIn(_, _, _)
ShiftIn(out, codes, i) ==
    IF i > Len(codes) \/ Len(out) # 8 THEN out
    ELSE ShiftIn(OrByte(Shl5(out), codes[i]), codes, i + 1)

\* a decoder without the test on the first symbol
decode_base32_to_u128_unchecked(id) ==
    IF Len(id) # SuffixLen
    THEN Err("InvalidEncoding", [what |-> "length", got |-> Len(id)])
    ELSE IF InvalidPositions(id) # {}
    THEN LET i == CHOOSE i \in InvalidPositions(id) :
                      \A j \in InvalidPositions(id) : i <= j
         IN  Err("InvalidEncoding", [what |-> "character", ch |-> id[i], pos |-> i - 1])
    ELSE LET codes == Eager([i \in 1..SuffixLen |-> CROCKFORD_INV[id[i]]])
         IN  Ok(ShiftIn(U128Zero, codes, 1))

decode_base32_to_u128(id) ==
    IF Len(id) # SuffixLen
    THEN Err("InvalidEncoding", [what |-> "length", got |-> Len(id)])
    ELSE IF InvalidPositions(id) # {}
    THEN LET i == CHOOSE i \in InvalidPositions(id) :
                      \A j \in InvalidPositions(id) : i <= j
         IN  Err("InvalidEncoding", [what |-> "character", ch |-> id[i], pos |-> i - 1])
    ELSE LET codes == Eager([i \in 1..SuffixLen |-> CROCKFORD_INV[id[i]]])
             max == OrAll(0, codes, 1)
         IN  IF max > 32 \/ codes[1] > 7
             THEN Err("InvalidEncoding", [what |-> "overflow"])
             ELSE Ok(ShiftIn(U128Zero, codes, 1))

\* for i in (0..26).rev() { buf[i] = CROCKFORD[data & 0x1f]; data >>= 5 }, from
\* index i (1-based) down
RECURSIVE EncodeLoop(_, _, _)
EncodeLoop(buf, data, i) ==
    IF i = 0 \/ Len(buf) # SuffixLen \/ Len(data) # 8 THEN buf
    ELSE EncodeLoop(Replace(buf, i, CROCKFORD[AndMask5(data) + 1]), Shr5(data), i - 1)

\* an encoder that emits the least significant group first
encode_u128_to_base32_reversed(data) ==
    LET e == EncodeLoop(Rep(0, SuffixLen), data, SuffixLen)
    IN  Eager([i \in 1..SuffixLen |-> e[SuffixLen + 1 - i]])

encode_u128_to_base32(data) == EncodeLoop(Rep(0, SuffixLen), data, SuffixLen)

encode_base32_uuid(uuid) == encode_u128_to_base32(as_u128(uuid))

decode_base32_uuid(encoded) ==
    LET r == decode_base32_to_u128(encoded)
    IN  IF IsOk(r) THEN Ok(from_u128(r.val)) ELSE r

-----------------------------------------------------------------------------
(* typeid.rs: TypeIDPrefix                                                  *)

MaxPrefixLen == 63
MaxTextLen == 89

IsLower(b) == b >= ByteOf("a") /\ b <= ByteOf("z")
IsUpper(b) == b >= ByteOf("A") /\ b <= ByteOf("Z")
IsDigit(b) == b >= ByteOf("0") /\ b <= ByteOf("9")

InvalidPrefix(actual, reason) ==
    Err("InvalidPrefix", [actual |-> actual] @@ reason)

\* The positions (1-based) at which the character loop returns an error.
BadPrefixPositions(bytes) ==
    {i \in 1..Len(bytes) : ~(IsLower(bytes[i]) \/ bytes[i] = ByteOf("_"))}

\* a validation without the test on the last byte
validate_prefix_open_end(t) ==
    IF Len(t) > MaxPrefixLen
    THEN InvalidPrefix(t, [what |-> "too long", len |-> Len(t)])
    ELSE IF Len(t) = 0
    THEN Ok(<<>>)
    ELSE IF t[1] = ByteOf("_")
    THEN InvalidPrefix(t, [what |-> "leading underscore"])
    ELSE IF BadPrefixPositions(t) # {}
    THEN LET i == CHOOSE i \in BadPrefixPositions(t) :
                      \A j \in BadPrefixPositions(t) : i <= j
             b == t[i]
         IN  InvalidPrefix(t,
                 [what |-> IF IsUpper(b) THEN "uppercase letter"
                           ELSE IF IsDigit(b) THEN "digit"
                           ELSE "invalid character",
                  ch |-> b, pos |-> i - 1])
    ELSE Ok(<<>>)

\* a validation that scans the characters before it tests the two ends
validate_prefix_scan_first(t) ==
    IF Len(t) > MaxPrefixLen
    THEN InvalidPrefix(t, [what |-> "too long", len |-> Len(t)])
    ELSE IF Len(t) = 0
    THEN Ok(<<>>)
    ELSE IF BadPrefixPositions(t) # {}
    THEN LET i == CHOOSE i \in BadPrefixPositions(t) :
                      \A j \in BadPrefixPositions(t) : i <= j
             b == t[i]
         IN  InvalidPrefix(t,
                 [what |-> IF IsUpper(b) THEN "uppercase letter"
                           ELSE IF IsDigit(b) THEN "digit"
                           ELSE "invalid character",
                  ch |-> b, pos |-> i - 1])
    ELSE IF t[1] = ByteOf("_")
    THEN InvalidPrefix(t, [what |-> "leading underscore"])
    ELSE IF t[Len(t)] = ByteOf("_")
    THEN InvalidPrefix(t, [what |-> "trailing underscore"])
    ELSE Ok(<<>>)

validate_prefix(t) ==
    IF Len(t) > MaxPrefixLen
    THEN InvalidPrefix(t, [what |-> "too long", len |-> Len(t)])
    ELSE IF Len(t) = 0
    THEN Ok(<<>>)
    ELSE IF t[1] = ByteOf("_")
    THEN InvalidPrefix(t, [what |-> "leading underscore"])
    ELSE IF t[Len(t)] = ByteOf("_")
    THEN InvalidPrefix(t, [what |-> "trailing underscore"])
    ELSE IF BadPrefixPositions(t) # {}
    THEN LET i == CHOOSE i \in BadPrefixPositions(t) :
                      \A j \in BadPrefixPositions(t) : i <= j
             b == t[i]
         IN  InvalidPrefix(t,
                 [what |-> IF IsUpper(b) THEN "uppercase letter"
                           ELSE IF IsDigit(b) THEN "digit"
                           ELSE "invalid character",
                  ch |-> b, pos |-> i - 1])
    ELSE Ok(<<>>)

\* Self::validate_prefix(tag).map(|_| Self(tag.to_string()))
TypeIDPrefix_new(t) ==
    LET r == validate_prefix(t)
    IN  IF IsOk(r) THEN Ok(t) ELSE r

-----------------------------------------------------------------------------
(* typeid.rs: TypeID                                                        *)

\* TypeID(type_prefix, uuid)
TypeID_new(prefix, uuid) == [prefix |-> prefix, uuid |-> uuid]

\* id.split_once('_'): the text before and after the first '_', or None
split_once(id) ==
    LET seps == {i \in 1..Len(id) : id[i] = ByteOf("_")}
    IN  IF seps = {} THEN None
        ELSE LET k == CHOOSE k \in seps : \A j \in seps : k <= j
             IN  Some(<<SubSeq(id, 1, k - 1), SubSeq(id, k + 1, Len(id))>>)

\* id.rsplit_once('_'): the text before and after the last '_', or None
rsplit_once(id) ==
    LET seps == {i \in 1..Len(id) : id[i] = ByteOf("_")}
    IN  IF seps = {} THEN None
        ELSE LET k == CHOOSE k \in seps : \A j \in seps : j <= k
             IN  Some(<<SubSeq(id, 1, k - 1), SubSeq(id, k + 1, Len(id))>>)

\* a parser that lets the longest canonical text through
TypeID_from_string_ninety(id) ==
    IF Len(id) > MaxPrefixLen + 1 + SuffixLen
    THEN Err("TooLong", [what |-> "too long"])
    ELSE LET sp == rsplit_once(id)
         IN  IF sp # None /\ Len(sp.val[1]) = 0
             THEN Err("InvalidFormat", [what |-> "leading separator"])
             ELSE LET t == IF sp = None THEN <<>> ELSE sp.val[1]
                      suffix == IF sp = None THEN id ELSE sp.val[2]
                  IN  IF Len(suffix) # SuffixLen
                      THEN Err("InvalidSuffix", [what |-> "length", got |-> Len(suffix)])
                      ELSE LET u == decode_base32_uuid(suffix)
                           IN  IF IsErr(u)
                               THEN Err("InvalidSuffix", u.reason)
                               ELSE LET p == TypeIDPrefix_new(t)
                                    IN  IF IsErr(p) THEN p
                                        ELSE Ok(TypeID_new(p.val, u.val))

\* a parser that takes a leading separator for the empty prefix
TypeID_from_string_lenient(id) ==
    IF Len(id) > MaxTextLen
    THEN Err("TooLong", [what |-> "too long"])
    ELSE LET sp == rsplit_once(id)
             t == IF sp = None THEN <<>> ELSE sp.val[1]
             suffix == IF sp = None THEN id ELSE sp.val[2]
         IN  IF Len(suffix) # SuffixLen
             THEN Err("InvalidSuffix", [what |-> "length", got |-> Len(suffix)])
             ELSE LET u == decode_base32_uuid(suffix)
                  IN  IF IsErr(u)
                      THEN Err("InvalidSuffix", u.reason)
                      ELSE LET p == TypeIDPrefix_new(t)
                           IN  IF IsErr(p) THEN p
                               ELSE Ok(TypeID_new(p.val, u.val))

\* a parser that validates the prefix before it looks at the suffix
TypeID_from_string_prefix_first(id) ==
    IF Len(id) > MaxTextLen
    THEN Err("TooLong", [what |-> "too long"])
    ELSE LET sp == rsplit_once(id)
         IN  IF sp # None /\ Len(sp.val[1]) = 0
             THEN Err("InvalidFormat", [what |-> "leading separator"])
             ELSE LET t == IF sp = None THEN <<>> ELSE sp.val[1]
                      suffix == IF sp = None THEN id ELSE sp.val[2]
                      p == TypeIDPrefix_new(t)
                  IN  IF IsErr(p) THEN p
                      ELSE IF Len(suffix) # SuffixLen
                      THEN Err("InvalidSuffix", [what |-> "length", got |-> Len(suffix)])
                      ELSE LET u == decode_base32_uuid(suffix)
                           IN  IF IsErr(u)
                               THEN Err("InvalidSuffix", u.reason)
                               ELSE Ok(TypeID_new(p.val, u.val))

TypeID_from_string(id) ==
    IF Len(id) > MaxTextLen
    THEN Err("TooLong", [what |-> "too long"])
    ELSE LET sp == rsplit_once(id)
         IN  IF sp # None /\ Len(sp.val[1]) = 0
             THEN Err("InvalidFormat", [what |-> "leading separator"])
             ELSE LET t == IF sp = None THEN <<>> ELSE sp.val[1]
                      suffix == IF sp = None THEN id ELSE sp.val[2]
                  IN  IF Len(suffix) # SuffixLen
                      THEN Err("InvalidSuffix", [what |-> "length", got |-> Len(suffix)])
                      ELSE LET u == decode_base32_uuid(suffix)
                           IN  IF IsErr(u)
                               THEN Err("InvalidSuffix", u.reason)
                               ELSE LET p == TypeIDPrefix_new(t)
                                    IN  IF IsErr(p) THEN p
                                        ELSE Ok(TypeID_new(p.val, u.val))

\* a rendering that writes the separator after an empty prefix as well
TypeID_to_string_separated(t) ==
    t.prefix \o <<ByteOf("_")>> \o encode_base32_uuid(t.uuid)

\* impl fmt::Display for TypeID
TypeID_to_string(t) ==
    IF Len(t.prefix) = 0
    THEN encode_base32_uuid(t.uuid)
    ELSE t.prefix \o <<ByteOf("_")>> \o encode_base32_uuid(t.uuid)

Less == -1
Equal == 0
Greater == 1

\* Ord for [u8] and str: the first differing byte decides, then the lengths
RECURSIVE cmp_from(_, _, _)
cmp_from(x, y, i) ==
    IF i > Len(x) \/ i > Len(y)
    THEN IF Len(x) < Len(y) THEN Less
         ELSE IF Len(x) > Len(y) THEN Greater
         ELSE Equal
    ELSE IF x[i] < y[i] THEN Less
    ELSE IF x[i] > y[i] THEN Greater
    ELSE cmp_from(x, y, i + 1)

bytes_cmp(x, y) == cmp_from(x, y, 1)

\* an order that looks at the value before the prefix
TypeID_cmp_value_first(a, b) ==
    LET c == bytes_cmp(a.uuid, b.uuid)
    IN  IF c = Equal THEN bytes_cmp(a.prefix, b.prefix) ELSE c

\* an order that looks at the prefix only
TypeID_cmp_prefix_only(a, b) == bytes_cmp(a.prefix, b.prefix)

\* impl Ord for TypeID
TypeID_cmp(a, b) ==
    LET c == bytes_cmp(a.prefix, b.prefix)
    IN  IF c = Equal THEN bytes_cmp(a.uuid, b.uuid) ELSE c

\* the derived order of a struct that declares the Uuid before the prefix
TypeID_partial_cmp_uuid_first(a, b) ==
    LET c == Some(bytes_cmp(a.uuid, b.uuid))
    IN  IF c = Some(Equal) THEN Some(bytes_cmp(a.prefix, b.prefix)) ELSE c

\* derive(PartialOrd) on TypeID(TypeIDPrefix, Uuid): field by field
TypeID_partial_cmp(a, b) ==
    LET c == Some(bytes_cmp(a.prefix, b.prefix))
    IN  IF c = Some(Equal) THEN Some(bytes_cmp(a.uuid, b.uuid)) ELSE c

TypeID_lt(a, b) == TypeID_partial_cmp(a, b) = Some(Less)
TypeID_gt(a, b) == TypeID_partial_cmp(a, b) = Some(Greater)

\* impl Hash for TypeID: what is written to the hasher, in order
TypeID_hash(t) == <<Len(t.prefix)>> \o t.prefix \o <<Len(t.uuid)>> \o t.uuid

-----------------------------------------------------------------------------
(* lib.rs                                                                   *)

typeid_is_valid(input) == IsOk(TypeID_from_string(input))

typeid_cmp(a, b) == TypeID_cmp(a, b)

-----------------------------------------------------------------------------
(* aggregate.rs                                                             *)

\* a transition function that keeps the larger of the two
TypeIDMin_state_larger(current, arg) ==
    IF current = None THEN Some(arg)
    ELSE Some(IF TypeID_gt(arg, current.val) THEN arg ELSE current.val)

TypeIDMin_state(current, arg) ==
    IF current = None THEN Some(arg)
    ELSE Some(IF TypeID_lt(arg, current.val) THEN arg ELSE current.val)

TypeIDMin_combine(left, right) ==
    IF left = None THEN right
    ELSE IF right = None THEN left
    ELSE Some(IF TypeID_lt(left.val, right.val) THEN left.val ELSE right.val)

TypeIDMax_state(current, arg) ==
    IF current = None THEN Some(arg)
    ELSE Some(IF TypeID_gt(arg, current.val) THEN arg ELSE current.val)

\* a merge that keeps the left state whenever it has one
TypeIDMax_combine_left(left, right) ==
    IF left = None THEN right ELSE left

TypeIDMax_combine(left, right) ==
    IF left = None THEN right
    ELSE IF right = None THEN left
    ELSE Some(IF TypeID_gt(left.val, right.val) THEN left.val ELSE right.val)

-----------------------------------------------------------------------------
(* Inputs of the codec session.                                             *)

UuidZero == Rep(0, 16)
UuidMax == Rep(255, 16)
\* the value of "01h455vb4pex5vsknk084sn02q" (lib.rs tests), a version 7 UUID
UuidV7a == <<1, 137, 10, 93, 172, 150, 119, 75, 188, 206, 179, 2, 9, 154, 128, 87>>
\* the value of "01j1acv2aeehk8hcapaw7qyjvq" (lib.rs tests)
UuidV7b == <<1, 144, 84, 205, 137, 78, 116, 102, 136, 177, 86, 87, 15, 127, 75, 119>>

\* the Uuid with only bit k set (bit 0 is the least significant)
OneHot(k) == Eager([i \in 1..16 |-> IF i = 16 - (k \div 8) THEN 2 ^ (k % 8) ELSE 0])
Complement(u) == Eager([i \in 1..16 |-> 255 - u[i]])

CodecUuids ==
    {UuidZero, UuidMax, UuidV7a, UuidV7b}
        \cup {OneHot(k) : k \in 0..127}
        \cup {Complement(OneHot(k)) : k \in 0..127}

SuffixV7a ==
    Str(<<"0", "1", "h", "4", "5", "5", "v", "b", "4", "p", "e", "x", "5",
          "v", "s", "k", "n", "k", "0", "8", "4", "s", "n", "0", "2", "q">>)
SuffixZero == Rep(ByteOf("0"), SuffixLen)
SuffixMax == <<ByteOf("7")>> \o Rep(ByteOf("z"), SuffixLen - 1)
BaseSuffixes == {SuffixV7a, SuffixZero, SuffixMax}

\* every ASCII byte, and the 2-byte UTF-8 characters U+0080, U+00E9, U+07FF
Ascii == 0..127
TwoByteChars == {<<194, 128>>, <<195, 169>>, <<223, 191>>}

CodecTexts ==
    BaseSuffixes
        \cup {Replace(s, p, b) : s \in {SuffixV7a}, p \in {1, 2, SuffixLen}, b \in Ascii}
        \cup {Replace(s, p, b) : s \in BaseSuffixes, p \in 1..SuffixLen,
                                 b \in {ByteOf("8"), ByteOf("z"), ByteOf("A"), ByteOf("Z"),
                                        ByteOf("i"), ByteOf("l"), ByteOf("o"), ByteOf("u"),
                                        ByteOf("_"), ByteOf("-")}}
        \cup {SubSeq(s, 1, p - 1) \o c \o SubSeq(s, p + 2, SuffixLen) :
                  s \in {SuffixV7a}, p \in {1, 13, SuffixLen - 1}, c \in TwoByteChars}
        \cup {SubSeq(s, 1, n) : s \in BaseSuffixes, n \in {0, 1, SuffixLen - 1}}
        \cup {s \o <<b>> : s \in BaseSuffixes, b \in {ByteOf("0"), ByteOf("_")}}

-----------------------------------------------------------------------------
(* The sessions.  Each starts idle; an action is one call of the extension. *)

Init ==
    /\ cuuid = None /\ ctext = <<>> /\ corigin = "none" /\ cdec = None
    /\ ptag = None /\ pres = None
    /\ tid = None /\ text = <<>> /\ origin = "none" /\ parsed = None
    /\ rendered = None /\ valid = None
    /\ oa = None /\ ob = None /\ oc = None /\ ord = None
    /\ ha = None /\ hb = None /\ gx = <<>> /\ hres = <<>>
    /\ rows = None /\ pending = <<>> /\ minState = None /\ maxState = None
    /\ prows = None /\ ppending = <<>> /\ wMin = <<>> /\ wMax = <<>> /\ alive = {}

-----------------------------------------------------------------------------
(* The codec session.                                                       *)

notCodec == <<prefixVars, textVars, orderVars, hashVars, aggVars, parVars>>

\* encode_base32_uuid(&uuid)
CodecEncode ==
    /\ corigin = "none"
    /\ \E u \in CodecUuids :
          /\ cuuid' = Some(u)
          /\ ctext' = encode_base32_uuid(u)
    /\ corigin' = "encoded"
    /\ UNCHANGED <<cdec, notCodec>>

\* a caller's own text is about to be decoded
CodecSupply ==
    /\ corigin = "none"
    /\ \E t \in CodecTexts : ctext' = t
    /\ corigin' = "supplied"
    /\ UNCHANGED <<cuuid, cdec, notCodec>>

\* decode_base32_uuid(&ctext)
CodecDecode ==
    /\ corigin # "none"
    /\ cdec = None
    /\ cdec' = Some(decode_base32_uuid(ctext))
    /\ UNCHANGED <<cuuid, ctext, corigin, notCodec>>

NextCodec == CodecEncode \/ CodecSupply \/ CodecDecode

SpecCodec == Init /\ [][NextCodec]_vars

-----------------------------------------------------------------------------
(* Claims about the codec.                                                  *)

\* bit k of the 128-bit value of a Uuid (bit 0 least significant); 0 above 127
UuidBit(u, k) == IF k > 127 THEN 0 ELSE (u[16 - (k \div 8)] \div (2 ^ (k % 8))) % 2

\* the i-th five-bit group (i = 1 is the most significant) of the 130-bit
\* zero-extension of the value
GroupOf(u, i) ==
    LET lo == 5 * (SuffixLen - i)
    IN  UuidBit(u, lo) + 2 * UuidBit(u, lo + 1) + 4 * UuidBit(u, lo + 2)
            + 8 * UuidBit(u, lo + 3) + 16 * UuidBit(u, lo + 4)

\* the lowercase Crockford alphabet: digits and letters without i, l, o, u
Alphabet ==
    {b \in Byte : IsDigit(b) \/ IsLower(b)}
        \ {ByteOf("i"), ByteOf("l"), ByteOf("o"), ByteOf("u")}

\* the value of a symbol: its rank in the alphabet
CodeOf(b) == Cardinality({c \in Alphabet : c < b})

\* C3: decode_base32_uuid(encode_base32_uuid(v)) succeeds and returns v, and
\* encode emits exactly 26 symbols, the i-th being the symbol of the i-th
\* most significant five-bit group of v.
C3_CodecRoundTrip ==
    corigin = "encoded" =>
        /\ Len(ctext) = 26
        /\ \A i \in 1..26 : ctext[i] = CROCKFORD[GroupOf(cuuid.val, i) + 1]
        /\ cdec # None => cdec.val = Ok(cuuid.val)

C3_Witness ==
    /\ corigin = "encoded"
    /\ cdec # None
    /\ cuuid.val = UuidMax

\* C6: decode fails with InvalidEncoding exactly when the length is not 26, a
\* byte is outside the lowercase Crockford alphabet, or the first symbol's
\* value exceeds 7; otherwise the result is the value whose five-bit groups,
\* most significant first, are the symbols' codes (so it is below 2^128).  The
\* inverse table maps exactly the bytes outside the alphabet to the sentinel.
C6_DecodeFailsExactly ==
    /\ \A b \in Byte :
          IF b \in Alphabet
          THEN CROCKFORD_INV[b] = CodeOf(b)
          ELSE CROCKFORD_INV[b] = 255
    /\ cdec # None =>
          LET r == cdec.val
              bad == \/ Len(ctext) # 26
                     \/ \E i \in 1..26 : ctext[i] \notin Alphabet
                     \/ CodeOf(ctext[1]) > 7
          IN  /\ IsErr(r) <=> bad
              /\ IsErr(r) => r.kind = "InvalidEncoding"
              /\ IsOk(r) => \A i \in 1..26 : GroupOf(r.val, i) = CodeOf(ctext[i])

C6_Witness ==
    /\ corigin = "supplied"
    /\ cdec # None
    /\ IsErr(cdec.val)
    /\ cdec.val.reason.what = "overflow"
    /\ \A i \in 1..Len(ctext) : ctext[i] \in Alphabet

-----------------------------------------------------------------------------
(* The prefix session: TypeIDPrefix::new on a caller's tag.                 *)

MaxTagLen == 65

LetterA == ByteOf("a")
Underscore == ByteOf("_")

TagUser == Str(<<"u", "s", "e", "r">>)
TagAB == Str(<<"a", "_", "b">>)

Tags ==
    {Rep(LetterA, n) : n \in 0..MaxTagLen}
        \cup {TagUser, TagAB, Str(<<"_", "x">>), Str(<<"x", "_">>),
              Str(<<"U", "s", "e", "r">>), Str(<<"u", "s", "e", "r", "1">>),
              Str(<<"_">>), Str(<<"_", "_">>), Str(<<"a", "_", "_", "b">>),
              Str(<<"u", "s", "e", "r", "_", "n", "a", "m", "e">>),
              Str(<<"c", "a", "f">>) \o <<195, 169>>}
        \cup {Replace(t, p, b) :
                  t \in {TagUser, Rep(LetterA, MaxPrefixLen), Rep(LetterA, MaxPrefixLen + 1)},
                  p \in {1, 2, 4}, b \in Ascii}
        \cup {Replace(Replace(t, 1, b), Len(t), c) :
                  t \in {TagUser, Rep(LetterA, MaxPrefixLen + 1)},
                  b \in {Underscore, ByteOf("A"), ByteOf("1")},
                  c \in {Underscore, ByteOf("Z"), ByteOf("9"), ByteOf("-")}}

notPrefix == <<codecVars, textVars, orderVars, hashVars, aggVars, parVars>>

\* TypeIDPrefix::new(tag)
PrefixNew ==
    /\ ptag = None
    /\ \E t \in Tags :
          /\ ptag' = Some(t)
          /\ pres' = Some(TypeIDPrefix_new(t))
    /\ UNCHANGED notPrefix

\* the caller drops the result and starts over
PrefixReset ==
    /\ ptag # None
    /\ ptag' = None
    /\ pres' = None
    /\ UNCHANGED notPrefix

NextPrefix == PrefixNew \/ PrefixReset

SpecPrefix == Init /\ [][NextPrefix]_vars

C15_PrefixReason ==
    (pres # None /\ IsErr(pres.val)) =>
        LET t == ptag.val
            why == pres.val.reason
            bad == {i \in 1..Len(t) : t[i] \notin (97..122) \cup {95}}
        IN  /\ why.actual = t
            /\ IF Len(t) > 63 THEN why.what = "too long" /\ why.len = Len(t)
               ELSE IF t[1] = 95 THEN why.what = "leading underscore"
               ELSE IF t[Len(t)] = 95 THEN why.what = "trailing underscore"
               ELSE /\ bad # {}
                    /\ \A j \in bad : why.pos + 1 <= j
                    /\ why.pos + 1 \in bad
                    /\ why.ch = t[why.pos + 1]
                    /\ why.what = IF why.ch \in 65..90 THEN "uppercase letter"
                                  ELSE IF why.ch \in 48..57 THEN "digit"
                                  ELSE "invalid character"

\* an uppercase first byte and a trailing underscore: the underscore is named
C15_Witness ==
    /\ pres # None
    /\ IsErr(pres.val)
    /\ ptag.val[1] \in 65..90
    /\ pres.val.reason.what = "trailing underscore"

-----------------------------------------------------------------------------
(* The text session: a TypeID is generated and rendered, or a caller's text *)
(* is supplied; the text is parsed, validated and rendered again.           *)

\* the tags handed to typeid_generate
GenTags ==
    {<<>>, TagUser, TagAB, Str(<<"U", "s", "e", "r">>),
     Rep(LetterA, MaxPrefixLen - 2), Rep(LetterA, MaxPrefixLen - 1),
     Rep(LetterA, MaxPrefixLen), Rep(LetterA, MaxPrefixLen + 1)}

\* the values Uuid::now_v7() may give; the parser is not told the version
GenUuids == {UuidZero, UuidMax, UuidV7a, UuidV7b, OneHot(127), OneHot(64)}

SuffixUpper ==
    Str(<<"0", "1", "H", "4", "5", "5", "V", "B", "4", "P", "E", "X", "5",
          "V", "S", "K", "N", "K", "0", "8", "4", "S", "N", "0", "2", "Q">>)

ParseTags ==
    GenTags \cup
        {Str(<<"x">>), Str(<<"a", "_", "_", "b">>), Str(<<"u", "s", "e", "r", "1">>),
         Str(<<"_", "x">>), Str(<<"x", "_">>), Str(<<"_">>),
         Str(<<"c", "a", "f">>) \o <<195, 169>>, Str(<<"i", "n", "v", "a", "l", "i", "d">>),
         <<ByteOf("A")>> \o Rep(LetterA, MaxPrefixLen - 2),
         <<ByteOf("A")>> \o Rep(LetterA, MaxPrefixLen - 1)}

ParseSuffixes ==
    BaseSuffixes \cup
        {SuffixUpper, <<>>, Str(<<"i", "d">>), Str(<<"i", "n", "v", "a", "l", "i", "d">>),
         SubSeq(SuffixV7a, 1, SuffixLen - 1), SuffixV7a \o <<ByteOf("0")>>,
         Replace(SuffixV7a, 1, ByteOf("8")), Replace(SuffixMax, 1, ByteOf("z")),
         Replace(SuffixV7a, 5, ByteOf("l")), Replace(SuffixV7a, 26, ByteOf("-")),
         Replace(SuffixV7a, 2, ByteOf("Q"))}

ParseTexts ==
    {t \o <<Underscore>> \o x : t \in ParseTags, x \in ParseSuffixes}
        \cup {t \o x : t \in ParseTags, x \in ParseSuffixes}
        \cup {Rep(Underscore, n) : n \in {MaxTextLen, MaxTextLen + 1}}
        \cup {Rep(LetterA, n) : n \in {MaxTextLen, MaxTextLen + 1}}
        \cup {<<Underscore>> \o Rep(LetterA, n) \o x :
                  n \in {MaxPrefixLen - 2, MaxPrefixLen - 1, MaxPrefixLen},
                  x \in {SuffixV7a, SuffixUpper}}

notText == <<codecVars, prefixVars, orderVars, hashVars, aggVars, parVars>>

\* typeid_generate(prefix): panics on an invalid prefix
TypeidGenerate ==
    /\ origin = "none"
    /\ \E t \in GenTags, u \in GenUuids :
          LET p == TypeIDPrefix_new(t)
          IN  IF IsOk(p)
              THEN /\ tid' = Some(TypeID_new(p.val, u))
                   /\ origin' = "generated"
              ELSE /\ tid' = None
                   /\ origin' = "panicked"
    /\ UNCHANGED <<text, parsed, rendered, valid, notText>>

\* id.to_string() (typeid_out)
TypeidOut ==
    /\ origin = "generated"
    /\ text' = TypeID_to_string(tid.val)
    /\ origin' = "rendered"
    /\ UNCHANGED <<tid, parsed, rendered, valid, notText>>

\* a caller's own text arrives
SupplyText ==
    /\ origin = "none"
    /\ \E t \in ParseTexts : text' = t
    /\ origin' = "supplied"
    /\ UNCHANGED <<tid, parsed, rendered, valid, notText>>

\* TypeID::from_string(text) (typeid_in, the text to typeid cast)
FromString ==
    /\ origin \in {"rendered", "supplied"}
    /\ parsed = None
    /\ parsed' = Some(TypeID_from_string(text))
    /\ UNCHANGED <<tid, text, origin, rendered, valid, notText>>

\* the parsed value is rendered again
Render ==
    /\ parsed # None
    /\ IsOk(parsed.val)
    /\ rendered = None
    /\ rendered' = Some(TypeID_to_string(parsed.val.val))
    /\ UNCHANGED <<tid, text, origin, parsed, valid, notText>>

\* typeid_is_valid(text)
IsValid ==
    /\ origin \in {"rendered", "supplied"}
    /\ valid = None
    /\ valid' = Some(typeid_is_valid(text))
    /\ UNCHANGED <<tid, text, origin, parsed, rendered, notText>>

NextText == TypeidGenerate \/ TypeidOut \/ SupplyText \/ FromString \/ Render \/ IsValid

SpecText == Init /\ [][NextText]_vars

\* C1: for every valid TypeID t (any prefix TypeIDPrefix::new accepts, up to
\* 63 bytes, with any value), from_string(t.to_string()) succeeds and returns t.
C1_RenderParseRoundTrip ==
    (origin = "rendered" /\ parsed # None) => parsed.val = Ok(tid.val)

\* C2: for every text s that from_string accepts, rendering the parsed value
\* gives back exactly s.
C2_ParseRenderRoundTrip ==
    rendered # None => rendered.val = text

C2_Witness ==
    /\ rendered # None
    /\ origin = "supplied"
    /\ Cardinality({i \in 1..Len(text) : text[i] = 95}) >= 2

\* the text is well formed: at most 89 bytes, and a bare 26-byte suffix that
\* decodes, or p_s split at the last '_' with p a non-empty accepted prefix
\* and s a 26-byte suffix that decodes
WellFormedText(t) ==
    /\ Len(t) <= 89
    /\ \/ /\ Len(t) = 26
          /\ \A i \in 1..Len(t) : t[i] # 95
          /\ IsOk(decode_base32_uuid(t))
       \/ \E k \in 2..Len(t) :
             /\ t[k] = 95
             /\ \A j \in (k + 1)..Len(t) : t[j] # 95
             /\ Len(t) - k = 26
             /\ IsOk(TypeIDPrefix_new(SubSeq(t, 1, k - 1)))
             /\ IsOk(decode_base32_uuid(SubSeq(t, k + 1, Len(t))))

C11_TooLongExactly ==
    parsed # None =>
        (parsed.val = Err("TooLong", [what |-> "too long"]) <=> Len(text) > 89)
            /\ (IsErr(parsed.val) /\ parsed.val.kind = "TooLong" <=> Len(text) >= 90)

\* a 90-byte text that starts with '_' is rejected for its length
C11_Witness ==
    /\ parsed # None
    /\ origin = "supplied"
    /\ Len(text) = 90
    /\ text[1] = 95
    /\ IsErr(parsed.val)
    /\ parsed.val.kind = "TooLong"

\* C12: from_string never succeeds on a text that begins with '_'; when that
\* '_' is the only one of a text of at most 89 bytes the result is
\* InvalidFormat, even if a valid 26-character suffix follows, while that
\* suffix without any separator parses to a TypeID with the empty prefix.
C12_LeadingSeparator ==
    parsed # None =>
        LET seps == {i \in 1..Len(text) : text[i] = 95}
        IN  /\ 1 \in seps =>
                  /\ IsErr(parsed.val)
                  /\ (seps = {1} /\ Len(text) <= 89) =>
                        /\ parsed.val.kind = "InvalidFormat"
                        /\ IsOk(decode_base32_uuid(Tail(text))) =>
                              TypeID_from_string(Tail(text))
                                  = Ok([prefix |-> <<>>,
                                        uuid |-> decode_base32_uuid(Tail(text)).val])
            /\ (seps = {} /\ IsOk(decode_base32_uuid(text))) =>
                  parsed.val = Ok([prefix |-> <<>>, uuid |-> decode_base32_uuid(text).val])

C12_Witness ==
    /\ parsed # None
    /\ text = <<95>> \o SuffixV7a
    /\ IsErr(parsed.val)
    /\ parsed.val.kind = "InvalidFormat"

\* C13: the text of a valid TypeID is canonical: the prefix, '_' and the
\* suffix, or the bare suffix when the prefix is empty; the suffix is 26
\* lowercase Crockford characters, the first of them one of '0'..'7'; the
\* whole text has at most 90 characters.
C13_CanonicalText ==
    origin = "rendered" =>
        LET p == tid.val.prefix
            n == Len(p)
            k == IF n = 0 THEN 0 ELSE n + 1
        IN  /\ Len(text) <= 90
            /\ Len(text) = k + 26
            /\ n <= 63
            /\ \A i \in 1..n : text[i] = p[i] /\ text[i] \in (97..122) \cup {95}
            /\ n > 0 => text[n + 1] = 95
            /\ \A i \in (k + 1)..(k + 26) : text[i] \in Alphabet
            /\ text[k + 1] \in 48..55

C13_Witness ==
    /\ origin = "rendered"
    /\ Len(text) = 90
    /\ tid.val.uuid = UuidMax

\* the tag obeys the prefix grammar
WellFormedPrefix(t) ==
    /\ Len(t) <= 63
    /\ \/ Len(t) = 0
       \/ /\ t[1] # 95
          /\ t[Len(t)] # 95
          /\ \A i \in 1..Len(t) : t[i] \in (97..122) \cup {95}

\* the 26 bytes are symbols of the alphabet, the first of value 0..7
WellFormedSuffix(x) ==
    /\ \A i \in 1..Len(x) : x[i] \in Alphabet
    /\ CodeOf(x[1]) <= 7

\* C14: from_string returns a TypeID or one typed error for every text, and
\* the error is that of the first failing step: TooLong, then InvalidFormat,
\* then InvalidSuffix for the length, then InvalidSuffix for the decoding,
\* then InvalidPrefix.
C14_FirstFailingStep ==
    parsed # None =>
        LET r == parsed.val
            seps == {i \in 1..Len(text) : text[i] = 95}
            k == IF seps = {} THEN 0 ELSE CHOOSE i \in seps : \A j \in seps : j <= i
            pre == SubSeq(text, 1, k - 1)
            suf == SubSeq(text, k + 1, Len(text))
        IN  /\ r.tag \in {"Ok", "Err"}
            /\ IsErr(r) => r.kind \in {"TooLong", "InvalidFormat", "InvalidSuffix",
                                       "InvalidPrefix"}
            /\ IF Len(text) > 89 THEN IsErr(r) /\ r.kind = "TooLong"
               ELSE IF k = 1 THEN IsErr(r) /\ r.kind = "InvalidFormat"
               ELSE IF Len(suf) # 26
               THEN IsErr(r) /\ r.kind = "InvalidSuffix" /\ r.reason.what = "length"
               ELSE IF ~WellFormedSuffix(suf)
               THEN /\ IsErr(r)
                    /\ r.kind = "InvalidSuffix"
                    /\ r.reason = decode_base32_uuid(suf).reason
                    /\ r.reason.what \in {"character", "overflow"}
               ELSE IF ~WellFormedPrefix(pre) THEN IsErr(r) /\ r.kind = "InvalidPrefix"
               ELSE IsOk(r)

\* the suffix and the prefix are both invalid: the suffix is reported
C14_Witness ==
    /\ parsed # None
    /\ Len(text) = 31
    /\ SubSeq(text, 1, 5) = <<85, 115, 101, 114, 95>>
    /\ IsErr(parsed.val)
    /\ parsed.val.kind = "InvalidSuffix"
    /\ parsed.val.reason.what = "overflow"

-----------------------------------------------------------------------------
(* The order session: three TypeIDs are compared pairwise with typeid_cmp.  *)

OrderPrefixes == {<<>>, Str(<<"a">>), Str(<<"a", "b">>), Str(<<"a", "_", "b">>), Str(<<"b">>)}
OrderUuids == {UuidZero, OneHot(0), OneHot(64), OneHot(127), UuidMax}
OrderIds == {TypeID_new(p, u) : p \in OrderPrefixes, u \in OrderUuids}

notOrder == <<codecVars, prefixVars, textVars, hashVars, aggVars, parVars>>

OrderPick ==
    /\ oa = None
    /\ \E a \in OrderIds, b \in OrderIds, c \in OrderIds :
          /\ oa' = Some(a)
          /\ ob' = Some(b)
          /\ oc' = Some(c)
    /\ UNCHANGED <<ord, notOrder>>

\* SELECT typeid_cmp(a, b), typeid_cmp(b, a), typeid_cmp(b, c), typeid_cmp(a, c)
TypeidCmp ==
    /\ oa # None
    /\ ord = None
    /\ ord' = Some([ab |-> typeid_cmp(oa.val, ob.val),
                    ba |-> typeid_cmp(ob.val, oa.val),
                    bc |-> typeid_cmp(ob.val, oc.val),
                    ac |-> typeid_cmp(oa.val, oc.val)])
    /\ UNCHANGED <<oa, ob, oc, notOrder>>

NextOrder == OrderPick \/ TypeidCmp

SpecOrder == Init /\ [][NextOrder]_vars

\* x is a proper prefix of y, or x has the smaller byte where they first differ
LexBefore(x, y) ==
    \E k \in 1..Len(y) :
        /\ k <= Len(x) + 1
        /\ \A j \in 1..(k - 1) : x[j] = y[j]
        /\ k = Len(x) + 1 \/ x[k] < y[k]

\* u < v as unsigned 128-bit integers: the highest differing bit is set in v
ValueBefore(u, v) ==
    \E k \in 0..127 :
        /\ UuidBit(u, k) = 0
        /\ UuidBit(v, k) = 1
        /\ \A j \in (k + 1)..127 : UuidBit(u, j) = UuidBit(v, j)

Before(a, b) ==
    \/ LexBefore(a.prefix, b.prefix)
    \/ a.prefix = b.prefix /\ ValueBefore(a.uuid, b.uuid)

\* C7: compare orders by prefix bytes lexicographically first and, for equal
\* prefixes, by the value as an unsigned 128-bit integer; it is antisymmetric,
\* transitive and total, and Equal exactly for the same prefix and value.
C7_CompareTotalOrder ==
    ord # None =>
        LET a == oa.val
            b == ob.val
            c == oc.val
            r == ord.val
        IN  /\ r.ab \in {Less, Equal, Greater}
            /\ r.ab = Less <=> Before(a, b)
            /\ r.ab = Greater <=> Before(b, a)
            /\ r.ab = Equal <=> (a.prefix = b.prefix /\ a.uuid = b.uuid)
            /\ r.ba = 0 - r.ab
            /\ (r.ab <= 0 /\ r.bc <= 0) => r.ac <= 0
            /\ (r.ab <= 0 /\ r.ba <= 0) => a = b

C7_Witness ==
    /\ ord # None
    /\ oa.val.prefix = ob.val.prefix
    /\ oa.val.uuid = OneHot(127)
    /\ ob.val.uuid = OneHot(64)
    /\ ord.val.ab = Greater
    /\ LexBefore(ob.val.prefix, oc.val.prefix)
    /\ oc.val.uuid = UuidZero
    /\ ord.val.bc = Less
    /\ ord.val.ac = Less

-----------------------------------------------------------------------------
(* The hash session: two TypeIDs are hashed, each call made up to twice.     *)
(* GxHasher is a fixed function of its seed and of the bytes written to it; *)
(* which function is left open: gx records the outputs seen so far.         *)

HashChoices == 2

\* the 64-bit output of finish(), as <<high half, low half>>
Words == {<<hi, lo>> : hi \in 0..1, lo \in 0..(HashChoices - 1)}

HashIds ==
    {TypeID_new(Str(<<"a">>), UuidZero), TypeID_new(Str(<<"a">>), OneHot(0)),
     TypeID_new(<<>>, UuidZero)}

Seeds == {0, 1}

Kinds == {"hash", "hash_extended"}
Args == {"a", "b"}

notHash == <<codecVars, prefixVars, textVars, orderVars, aggVars, parVars>>

\* the seed the session passes to typeid_hash_extended is part of the pick
HashPick ==
    /\ ha = None
    /\ \E a \in HashIds, b \in HashIds, seed \in Seeds :
          /\ ha' = Some(a)
          /\ hb' = Some([id |-> b, seed |-> seed])
    /\ hres' = [k \in Kinds \X Args |-> <<>>]
    /\ UNCHANGED <<gx, notHash>>

HashArg(which) == IF which = "a" THEN ha.val ELSE hb.val.id

\* the hasher's output for a seed and a stream: as recorded, or a fresh one
Finish(key, w) == IF key \in DOMAIN gx THEN gx[key] = w ELSE w \in Words

Record(key, w) == IF key \in DOMAIN gx THEN gx ELSE gx @@ (key :> w)

\* typeid_hash(typeid): GxHasher::default(), finish() as i32
TypeidHash ==
    /\ ha # None
    /\ \E which \in Args :
          LET key == <<None, TypeID_hash(HashArg(which))>>
              call == <<"hash", which>>
          IN  /\ Len(hres[call]) < 2
              /\ \E w \in Words :
                    /\ Finish(key, w)
                    /\ gx' = Record(key, w)
                    /\ hres' = [hres EXCEPT ![call] = Append(@, w[2])]
    /\ UNCHANGED <<ha, hb, notHash>>

\* typeid_hash_extended(typeid, seed): GxHasher::with_seed(seed), finish() as i64
TypeidHashExtended ==
    /\ ha # None
    /\ \E which \in Args :
          LET key == <<Some(hb.val.seed), TypeID_hash(HashArg(which))>>
              call == <<"hash_extended", which>>
          IN  /\ Len(hres[call]) < 2
              /\ \E w \in Words :
                    /\ Finish(key, w)
                    /\ gx' = Record(key, w)
                    /\ hres' = [hres EXCEPT ![call] = Append(@, w)]
    /\ UNCHANGED <<ha, hb, notHash>>

NextHash == HashPick \/ TypeidHash \/ TypeidHashExtended

SpecHash == Init /\ [][NextHash]_vars

\* C8 as stated: compare(a, b) == 0 if and only if hash(a) == hash(b), for
\* every pair of calls of the same hash function made on a and on b
C8_HashIffEqual ==
    ha # None =>
        \A k \in Kinds :
            \A i \in 1..Len(hres[<<k, "a">>]), j \in 1..Len(hres[<<k, "b">>]) :
                typeid_cmp(ha.val, hb.val.id) = 0
                    <=> hres[<<k, "a">>][i] = hres[<<k, "b">>][j]

\* C8, one direction only: identifiers that compare equal hash equally under typeid_hash and,
\* for a fixed seed, under typeid_hash_extended, and every call on the same
\* identifier gives the same result.
C8_EqualHashEqually ==
    ha # None =>
        \A k \in Kinds :
            /\ \A x \in Args :
                  \A i \in 1..Len(hres[<<k, x>>]), j \in 1..Len(hres[<<k, x>>]) :
                      hres[<<k, x>>][i] = hres[<<k, x>>][j]
            /\ \A i \in 1..Len(hres[<<k, "a">>]), j \in 1..Len(hres[<<k, "b">>]) :
                  typeid_cmp(ha.val, hb.val.id) = 0
                      => hres[<<k, "a">>][i] = hres[<<k, "b">>][j]

C8_Witness ==
    /\ ha # None
    /\ typeid_cmp(ha.val, hb.val.id) = 0
    /\ \A k \in Kinds, x \in Args : Len(hres[<<k, x>>]) = 2

-----------------------------------------------------------------------------
(* The aggregate sessions: min(id) and max(id) over the rows of a table.    *)

MaxRows == 3
NumWorkers == 3

PrefixComment == Str(<<"c", "o", "m", "m", "e", "n", "t">>)
PrefixPost == Str(<<"p", "o", "s", "t">>)

AggIds ==
    {TypeID_new(PrefixComment, UuidV7a), TypeID_new(PrefixComment, UuidV7b),
     TypeID_new(PrefixPost, UuidV7a), TypeID_new(TagUser, OneHot(127))}

\* a table is a multiset of rows: how many times each TypeID occurs
RECURSIVE SumOver(_, _)
SumOver(b, ids) ==
    IF ids = {} THEN 0
    ELSE LET x == CHOOSE x \in ids : TRUE
         IN  b[x] + SumOver(b, ids \ {x})

BagSize(b) == SumOver(b, AggIds)

Tables == {b \in [AggIds -> 0..MaxRows] : BagSize(b) <= MaxRows}

notAgg == <<codecVars, prefixVars, textVars, orderVars, hashVars, parVars>>

\* SELECT min(id), max(id) FROM a table: both states start as None
AggStart ==
    /\ rows = None
    /\ \E b \in Tables :
          /\ rows' = Some(b)
          /\ pending' = b
    /\ minState' = None
    /\ maxState' = None
    /\ UNCHANGED notAgg

\* the scan hands the next row, whichever it is, to both transition functions
FeedRow ==
    /\ rows # None
    /\ \E id \in AggIds :
          /\ pending[id] > 0
          /\ pending' = [pending EXCEPT ![id] = @ - 1]
          /\ minState' = TypeIDMin_state(minState, id)
          /\ maxState' = TypeIDMax_state(maxState, id)
    /\ UNCHANGED <<rows, notAgg>>

NextAgg == AggStart \/ FeedRow

SpecAgg == Init /\ [][NextAgg]_vars

\* the rows fed so far
Fed == {id \in AggIds : rows.val[id] - pending[id] > 0}

\* C9: folding with TypeIDMin::state (TypeIDMax::state) from None gives None
\* when nothing was fed and otherwise Some(m), m a fed row that is least
\* (greatest) under compare, whatever the order in which the rows were fed.
C9_FoldGivesLeastAndGreatest ==
    rows # None =>
        IF Fed = {}
        THEN minState = None /\ maxState = None
        ELSE /\ minState.tag = "Some"
             /\ minState.val \in Fed
             /\ \A x \in Fed : typeid_cmp(minState.val, x) <= 0
             /\ \A x \in Fed : x.prefix = minState.val.prefix
                                  \/ LexBefore(minState.val.prefix, x.prefix)
             /\ maxState.tag = "Some"
             /\ maxState.val \in Fed
             /\ \A x \in Fed : typeid_cmp(maxState.val, x) >= 0
             /\ \A x \in Fed : x.prefix = maxState.val.prefix
                                  \/ LexBefore(x.prefix, maxState.val.prefix)

C9_Witness ==
    /\ rows # None
    /\ BagSize(pending) = 0
    /\ {x.prefix : x \in Fed} = {PrefixComment, PrefixPost, TagUser}
    /\ minState.val.prefix = PrefixComment
    /\ maxState.val.prefix = TagUser

\* the parallel plan: every row goes to one of the workers, and the partial
\* states are merged once the scan is over
Workers == 1..NumWorkers

notPar == <<codecVars, prefixVars, textVars, orderVars, hashVars, aggVars>>

ParStart ==
    /\ prows = None
    /\ \E b \in Tables :
          /\ prows' = Some(b)
          /\ ppending' = b
    /\ wMin' = [w \in Workers |-> None]
    /\ wMax' = [w \in Workers |-> None]
    /\ alive' = Workers
    /\ UNCHANGED notPar

ParFeed ==
    /\ prows # None
    /\ \E w \in Workers, id \in AggIds :
          /\ ppending[id] > 0
          /\ ppending' = [ppending EXCEPT ![id] = @ - 1]
          /\ wMin' = [wMin EXCEPT ![w] = TypeIDMin_state(@, id)]
          /\ wMax' = [wMax EXCEPT ![w] = TypeIDMax_state(@, id)]
    /\ UNCHANGED <<prows, alive, notPar>>

\* the partial state of worker r is merged into that of worker l
ParCombine ==
    /\ prows # None
    /\ BagSize(ppending) = 0
    /\ \E l \in alive, r \in alive :
          /\ l # r
          /\ wMin' = [wMin EXCEPT ![l] = TypeIDMin_combine(wMin[l], wMin[r])]
          /\ wMax' = [wMax EXCEPT ![l] = TypeIDMax_combine(wMax[l], wMax[r])]
          /\ alive' = alive \ {r}
    /\ UNCHANGED <<prows, ppending, notPar>>

NextPar == ParStart \/ ParFeed \/ ParCombine

SpecPar == Init /\ [][NextPar]_vars

\* every order in which the rows of table b can be scanned
RECURSIVE ScanOrders(_)
ScanOrders(b) ==
    IF \A id \in AggIds : b[id] = 0 THEN {<<>>}
    ELSE UNION {{<<id>> \o s : s \in ScanOrders([b EXCEPT ![id] = @ - 1])} :
                    id \in {x \in AggIds : b[x] > 0}}

RECURSIVE FoldMin(_, _, _)
FoldMin(state, s, i) ==
    IF i > Len(s) THEN state ELSE FoldMin(TypeIDMin_state(state, s[i]), s, i + 1)

RECURSIVE FoldMax(_, _, _)
FoldMax(state, s, i) ==
    IF i > Len(s) THEN state ELSE FoldMax(TypeIDMax_state(state, s[i]), s, i + 1)

\* every state a worker can hold
PartialStates == {None} \cup {Some(id) : id \in AggIds}

\* combine has None as its identity and is commutative and associative
CombineLaws ==
    /\ \A x \in PartialStates :
          /\ TypeIDMin_combine(None, x) = x
          /\ TypeIDMin_combine(x, None) = x
          /\ TypeIDMax_combine(None, x) = x
          /\ TypeIDMax_combine(x, None) = x
    /\ \A x \in PartialStates, y \in PartialStates :
          /\ TypeIDMin_combine(x, y) = TypeIDMin_combine(y, x)
          /\ TypeIDMax_combine(x, y) = TypeIDMax_combine(y, x)
    /\ \A x \in PartialStates, y \in PartialStates, z \in PartialStates :
          /\ TypeIDMin_combine(TypeIDMin_combine(x, y), z)
                = TypeIDMin_combine(x, TypeIDMin_combine(y, z))
          /\ TypeIDMax_combine(TypeIDMax_combine(x, y), z)
                = TypeIDMax_combine(x, TypeIDMax_combine(y, z))

\* C10: however the rows were split among the workers and fed, and in
\* whatever order and grouping the partial states were merged, the final
\* state is that of a sequential fold over the whole table; combine is
\* associative and commutative with None as its identity.
C10_ParallelEqualsSequential ==
    prows # None =>
        /\ (BagSize(ppending) = 0 /\ Cardinality(alive) = 1) =>
              \A w \in alive : \A s \in ScanOrders(prows.val) :
                  /\ wMin[w] = FoldMin(None, s, 1)
                  /\ wMax[w] = FoldMax(None, s, 1)
        /\ \A w \in Workers : wMin[w] \in PartialStates /\ wMax[w] \in PartialStates
        /\ CombineLaws

C10_Witness ==
    /\ prows # None
    /\ BagSize(prows.val) = MaxRows
    /\ BagSize(ppending) = 0
    /\ Cardinality(alive) = 1
    /\ Cardinality({wMin[w] : w \in Workers} \ {None}) >= 2
    /\ \A w \in alive : wMin[w] # wMax[w]

-----------------------------------------------------------------------------
(* The sort session: the rows of a table are compared by the aggregates'    *)
(* operators, by typeid_cmp and as text.                                    *)

\* the Uuid of value 31: only the last five-bit group is set, to its maximum
UuidLowGroup == Eager([i \in 1..16 |-> IF i = 16 THEN 31 ELSE 0])

SortPrefixes ==
    {<<>>, Str(<<"a">>), Str(<<"a", "b">>), Str(<<"a", "_", "b">>),
     Str(<<"a", "_", "_", "b">>), Str(<<"b">>)}
SortUuids == {UuidZero, OneHot(0), UuidLowGroup, OneHot(5), OneHot(127), UuidMax}
SortIds == {TypeID_new(p, u) : p \in SortPrefixes, u \in SortUuids}
ThirdRows == {TypeID_new(p, UuidV7a) : p \in {<<>>, Str(<<"a", "_", "b">>), Str(<<"b">>)}}

SortPick ==
    /\ oa = None
    /\ \E a \in SortIds, b \in SortIds, c \in ThirdRows :
          /\ oa' = Some(a)
          /\ ob' = Some(b)
          /\ oc' = Some(c)
    /\ UNCHANGED <<ord, notOrder>>

\* SELECT min(id), max(id) against ORDER BY id, which sorts with typeid_cmp
\* (the btree operator class); a < b and a > b are the aggregates' tests
SortRows ==
    /\ oa # None
    /\ ord = None
    /\ LET table == {oa.val, ob.val, oc.val}
       IN  ord' = Some([query |-> "rows",
                        lt |-> TypeID_lt(oa.val, ob.val),
                        gt |-> TypeID_gt(oa.val, ob.val),
                        cmp |-> typeid_cmp(oa.val, ob.val),
                        min |-> TypeIDMin_state(TypeIDMin_state(
                                    TypeIDMin_state(None, oa.val), ob.val), oc.val),
                        max |-> TypeIDMax_state(TypeIDMax_state(
                                    TypeIDMax_state(None, oa.val), ob.val), oc.val),
                        first |-> CHOOSE x \in table :
                                      \A y \in table : typeid_cmp(x, y) <= 0,
                        last |-> CHOOSE x \in table :
                                     \A y \in table : typeid_cmp(x, y) >= 0])
    /\ UNCHANGED <<oa, ob, oc, notOrder>>

\* SELECT a::text, b::text, typeid_cmp(a, b)
SortTexts ==
    /\ oa # None
    /\ ord = None
    /\ ord' = Some([query |-> "texts",
                    ta |-> TypeID_to_string(oa.val),
                    tb |-> TypeID_to_string(ob.val),
                    cmp |-> typeid_cmp(oa.val, ob.val)])
    /\ UNCHANGED <<oa, ob, oc, notOrder>>

NextSort == SortPick \/ SortRows \/ SortTexts

SpecSort == Init /\ [][NextSort]_vars

\* C16: the derived '<' and '>' of the aggregates answer as typeid_cmp does:
\* a < b exactly when typeid_cmp(a, b) < 0, a > b exactly when it is > 0, so
\* min(id) and max(id) are the first and last rows of ORDER BY id.
C16_DerivedAgreesWithCmp ==
    (ord # None /\ ord.val.query = "rows") =>
        /\ ord.val.lt <=> ord.val.cmp < 0
        /\ ord.val.gt <=> ord.val.cmp > 0
        /\ ord.val.min = Some(ord.val.first)
        /\ ord.val.max = Some(ord.val.last)

C16_Witness ==
    /\ ord # None
    /\ ord.val.query = "rows"
    /\ ord.val.lt
    /\ oa.val.prefix = ob.val.prefix
    /\ ord.val.min = Some(oc.val)
    /\ ord.val.max = Some(ob.val)

\* C17: comparing the texts of two valid TypeIDs byte by byte gives what
\* compare gives; for equal prefixes u < v as unsigned 128-bit integers
\* exactly when encode(u) < encode(v) as strings.
C17_TextOrderIsCompare ==
    (ord # None /\ ord.val.query = "texts") =>
        LET r == ord.val
            a == oa.val
            b == ob.val
        IN  /\ r.cmp = Less <=> LexBefore(r.ta, r.tb)
            /\ r.cmp = Greater <=> LexBefore(r.tb, r.ta)
            /\ r.cmp = Equal <=> r.ta = r.tb
            /\ a.prefix = b.prefix =>
                  (ValueBefore(a.uuid, b.uuid)
                      <=> LexBefore(SubSeq(r.ta, Len(r.ta) - 25, Len(r.ta)),
                                    SubSeq(r.tb, Len(r.tb) - 25, Len(r.tb))))

\* one prefix continues the other with "__b", and the longer one is greater
C17_Witness ==
    /\ ord # None
    /\ ord.val.query = "texts"
    /\ oa.val.prefix = <<97>>
    /\ ob.val.prefix = <<97, 95, 95, 98>>
    /\ oa.val.uuid = UuidMax
    /\ ob.val.uuid = UuidZero
    /\ ord.val.cmp = Less

=============================================================================
